---------------------------- MODULE Spec2Model ----------------------------
(***************************************************************************)
(* A model of sync_predictions.py: the PredictionSync store (load, save,   *)
(* id generation, add, evaluate, pending list, statistics) and the         *)
(* interactive flows of the command line that call it.                     *)
(*                                                                         *)
(* Python values are modelled as follows.                                  *)
(*   str            a sequence of one-character strings                    *)
(*   int            an integer                                             *)
(*   None           PyNone, a value no str equals                          *)
(*   list of str    a sequence of str                                      *)
(*   dict           a record with the dict's keys as fields                *)
(*   float          an exact fraction <<numerator, denominator>>           *)
(*   datetime       a record [ord |-> proleptic Gregorian day number,      *)
(*                            hour |-> hour of the day]                    *)
(***************************************************************************)
EXTENDS Integers, Sequences, FiniteSets, TLC

VARIABLES
    file,         \* predictions.json: [exists |-> BOOLEAN, doc |-> JSON text as a value tree]
    predictions,  \* self.predictions of the live PredictionSync object
    now,          \* what datetime.now() returns
    last          \* the most recent call: its name, arguments, result and output

vars == <<file, predictions, now, last>>

-----------------------------------------------------------------------------
(* Bounds of the model.                                                    *)

\* the store holds at most this many records
MaxPreds == 2

-----------------------------------------------------------------------------
(* Python str operations.                                                  *)

Digits == <<"0", "1", "2", "3", "4", "5", "6", "7", "8", "9">>

DigitChar(d) == Digits[d + 1]

IsDigit(c) == \E d \in 0..9 : Digits[d + 1] = c

DigitVal(c) == CHOOSE d \in 0..9 : Digits[d + 1] = c

\* str(n) / f"{n}" for n >= 0: decimal digits, no padding
RECURSIVE Str(_)
Str(n) == IF n < 10 THEN <<DigitChar(n)>> ELSE Str(n \div 10) \o <<DigitChar(n % 10)>>

\* f"{n:0{w}d}" for n >= 0: decimal digits, zero-padded on the left to width w
RECURSIVE ZeroPad(_, _)
ZeroPad(s, w) == IF Len(s) >= w THEN s ELSE ZeroPad(<<"0">> \o s, w)

\* s.startswith(prefix)
StartsWith(s, prefix) ==
    /\ Len(prefix) <= Len(s)
    /\ SubSeq(s, 1, Len(prefix)) = prefix

\* the code point order of the characters that occur in ISO dates
Ord(c) == IF c = "-" THEN 45 ELSE 48 + DigitVal(c)

\* s < t for str: lexicographic by code point
RECURSIVE StrLess(_, _)
StrLess(s, t) ==
    IF t = <<>> THEN FALSE
    ELSE IF s = <<>> THEN TRUE
    ELSE IF Ord(Head(s)) # Ord(Head(t)) THEN Ord(Head(s)) < Ord(Head(t))
    ELSE StrLess(Tail(s), Tail(t))

IsSpace(c) == c = " "

\* s.strip()
RECURSIVE LStrip(_)
LStrip(s) == IF s # <<>> /\ IsSpace(Head(s)) THEN LStrip(Tail(s)) ELSE s

RECURSIVE RStrip(_)
RStrip(s) ==
    IF s # <<>> /\ IsSpace(s[Len(s)]) THEN RStrip(SubSeq(s, 1, Len(s) - 1)) ELSE s

Strip(s) == RStrip(LStrip(s))

\* c.lower() for the letters the inputs use
LowerChar(c) ==
    CASE c = "Y" -> "y"
      [] c = "N" -> "n"
      [] c = "C" -> "c"
      [] OTHER -> c

\* s.lower()
Lower(s) == [i \in 1..Len(s) |-> LowerChar(s[i])]

\* whether int(s) succeeds for a stripped s: an optional sign and decimal digits
IsIntLiteral(s) ==
    LET body == IF s # <<>> /\ Head(s) \in {"-", "+"} THEN Tail(s) ELSE s
    IN  /\ body # <<>>
        /\ \A i \in 1..Len(body) : IsDigit(body[i])

RECURSIVE DigitsVal(_)
DigitsVal(s) ==
    IF s = <<>> THEN 0 ELSE 10 * DigitsVal(SubSeq(s, 1, Len(s) - 1)) + DigitVal(s[Len(s)])

\* int(s) where it succeeds
ParseInt(s) ==
    IF Head(s) = "-" THEN 0 - DigitsVal(Tail(s))
    ELSE IF Head(s) = "+" THEN DigitsVal(Tail(s))
    ELSE DigitsVal(s)

\* s.split(","): the pieces between the commas, at least one piece
RECURSIVE SplitComma(_, _)
SplitComma(s, piece) ==
    IF s = <<>> THEN <<piece>>
    ELSE IF Head(s) = "," THEN <<piece>> \o SplitComma(Tail(s), <<>>)
    ELSE SplitComma(Tail(s), Append(piece, Head(s)))

-----------------------------------------------------------------------------
(* datetime: the proleptic Gregorian calendar of Python's datetime module. *)

IsLeap(y) == y % 4 = 0 /\ (y % 100 # 0 \/ y % 400 = 0)

DaysInMonth(y, m) ==
    IF m = 2 THEN (IF IsLeap(y) THEN 29 ELSE 28)
    ELSE IF m \in {4, 6, 9, 11} THEN 30 ELSE 31

\* days before January 1st of year y
DaysBeforeYear(y) ==
    LET p == y - 1 IN p * 365 + p \div 4 - p \div 100 + p \div 400

RECURSIVE DaysBeforeMonth(_, _)
DaysBeforeMonth(y, m) ==
    IF m = 1 THEN 0 ELSE DaysBeforeMonth(y, m - 1) + DaysInMonth(y, m - 1)

\* date(y, m, d).toordinal(): 0001-01-01 is day 1
Ymd2Ord(y, m, d) == DaysBeforeYear(y) + DaysBeforeMonth(y, m) + d

\* the year of day number n
RECURSIVE YearOf(_, _)
YearOf(n, y) == IF n > DaysBeforeYear(y + 1) THEN YearOf(n, y + 1) ELSE y

RECURSIVE MonthOf(_, _, _)
MonthOf(n, y, m) ==
    IF n - DaysBeforeYear(y) > DaysBeforeMonth(y, m) + DaysInMonth(y, m)
    THEN MonthOf(n, y, m + 1) ELSE m

\* date.fromordinal(n) as <<year, month, day>>
Ord2Ymd(n) ==
    LET y == YearOf(n, n \div 366 + 1)
        m == MonthOf(n, y, 1)
    IN  <<y, m, n - DaysBeforeYear(y) - DaysBeforeMonth(y, m)>>

\* dt.strftime("%Y-%m-%d")
Strftime(dt) ==
    LET ymd == Ord2Ymd(dt.ord)
    IN  ZeroPad(Str(ymd[1]), 4) \o <<"-">> \o ZeroPad(Str(ymd[2]), 2)
            \o <<"-">> \o ZeroPad(Str(ymd[3]), 2)

\* datetime.strptime(s, "%Y-%m-%d"): midnight of the day s names
Strptime(s) ==
    [ord |-> Ymd2Ord(DigitsVal(SubSeq(s, 1, 4)), DigitsVal(SubSeq(s, 6, 7)),
                     DigitsVal(SubSeq(s, 9, 10))),
     hour |-> 0]

\* dt + timedelta(days=n)
PlusDays(dt, n) == [ord |-> dt.ord + n, hour |-> dt.hour]

\* (a - b).days: the whole days of the difference, rounded towards minus infinity
DeltaDays(a, b) ==
    LET hours == (a.ord * 24 + a.hour) - (b.ord * 24 + b.hour)
    IN  IF hours >= 0 THEN hours \div 24 ELSE 0 - ((0 - hours + 23) \div 24)

-----------------------------------------------------------------------------
(* json: a document is a tree of values, each tagged with its JSON type.   *)

\* Python's None; no str equals it (every element of a str is one character)
PyNone == <<"None">>

\* the outcome strings
Pending == <<"p", "e", "n", "d", "i", "n", "g">>
Correct == <<"c", "o", "r", "r", "e", "c", "t">>
Incorrect == <<"i", "n">> \o Correct

JNull == [j |-> "null"]
JString(s) == [j |-> "string", s |-> s]
JNumber(n) == [j |-> "number", n |-> n]
JArray(items) == [j |-> "array", items |-> items]
JObject(members) == [j |-> "object", members |-> members]

\* json.dump of a str or None
DumpStr(v) == IF v = PyNone THEN JNull ELSE JString(v)

\* json.dump of one prediction dict: the keys in insertion order
DumpDict(p) ==
    JObject(<< <<"id", DumpStr(p.id)>>,
               <<"prediction", DumpStr(p.prediction)>>,
               <<"domain", DumpStr(p.domain)>>,
               <<"confidence", JNumber(p.confidence)>>,
               <<"created_date", DumpStr(p.created_date)>>,
               <<"due_date", DumpStr(p.due_date)>>,
               <<"verification", DumpStr(p.verification)>>,
               <<"falsification", DumpStr(p.falsification)>>,
               <<"sources", JArray([i \in 1..Len(p.sources) |-> DumpStr(p.sources[i])])>>,
               <<"outcome", DumpStr(p.outcome)>>,
               <<"evaluated_date", DumpStr(p.evaluated_date)>>,
               <<"outcome_notes", DumpStr(p.outcome_notes)>> >>)

\* json.dump(self.predictions, f, indent=4)
JsonDump(preds) == JArray([i \in 1..Len(preds) |-> DumpDict(preds[i])])

\* the value of a JSON scalar or array of scalars as json.load builds it
LoadScalar(v) ==
    CASE v.j = "null" -> PyNone
      [] v.j = "string" -> v.s
      [] v.j = "number" -> v.n

LoadValue(v) ==
    IF v.j = "array" THEN [i \in 1..Len(v.items) |-> LoadScalar(v.items[i])]
    ELSE LoadScalar(v)

\* the value stored under key in a JSON object
Member(o, key) ==
    LET i == CHOOSE k \in 1..Len(o.members) : o.members[k][1] = key
    IN  o.members[i][2]

\* json.load of one prediction object
LoadDict(o) ==
    [id |-> LoadValue(Member(o, "id")),
     prediction |-> LoadValue(Member(o, "prediction")),
     domain |-> LoadValue(Member(o, "domain")),
     confidence |-> LoadValue(Member(o, "confidence")),
     created_date |-> LoadValue(Member(o, "created_date")),
     due_date |-> LoadValue(Member(o, "due_date")),
     verification |-> LoadValue(Member(o, "verification")),
     falsification |-> LoadValue(Member(o, "falsification")),
     sources |-> LoadValue(Member(o, "sources")),
     outcome |-> LoadValue(Member(o, "outcome")),
     evaluated_date |-> LoadValue(Member(o, "evaluated_date")),
     outcome_notes |-> LoadValue(Member(o, "outcome_notes"))]

\* json.load(f)
JsonLoad(doc) == [i \in 1..Len(doc.items) |-> LoadDict(doc.items[i])]

-----------------------------------------------------------------------------
(* PredictionSync                                                          *)

NoFile == [exists |-> FALSE, doc |-> JArray(<<>>)]

\* _load_predictions
LoadPredictions(f) == IF f.exists THEN JsonLoad(f.doc) ELSE <<>>

\* _save_predictions: the file after the call
SavePredictions(preds) == [exists |-> TRUE, doc |-> JsonDump(preds)]

\* the prefix f'PRED-{year}'
PredPrefix(year) == <<"P", "R", "E", "D", "-">> \o Str(year)

\* _generate_id, had it counted every record instead of this year's
GenerateIdCountingAll(preds, dt) ==
    LET year == Ord2Ymd(dt.ord)[1]
        count == Len(preds) + 1
    IN  PredPrefix(year) \o <<"-">> \o ZeroPad(Str(count), 3)

\* _generate_id
GenerateId(preds, dt) ==
    LET year == Ord2Ymd(dt.ord)[1]
        SameYear(p) == StartsWith(p.id, PredPrefix(year))
        count == Len(SelectSeq(preds, SameYear)) + 1
    IN  PredPrefix(year) \o <<"-">> \o ZeroPad(Str(count), 3)

\* add_prediction, had it saved before appending
AddSavingBeforeAppend(preds, dt, prediction, domain, confidence, due_days, verification, falsification, sources) ==
    LET new_pred == [id |-> GenerateId(preds, dt),
                     prediction |-> prediction,
                     domain |-> domain,
                     confidence |-> confidence,
                     created_date |-> Strftime(dt),
                     due_date |-> Strftime(PlusDays(dt, due_days)),
                     verification |-> verification,
                     falsification |-> falsification,
                     sources |-> sources,
                     outcome |-> Pending,
                     evaluated_date |-> PyNone,
                     outcome_notes |-> PyNone]
    IN  [predictions |-> Append(preds, new_pred),
         file |-> SavePredictions(preds),
         saved |-> TRUE,
         ret |-> new_pred.id]

\* add_prediction: the list and the file after the call, and the id returned
\* (every caller passes a list as sources, so `sources or []` only sees lists)
AddPrediction(preds, dt, prediction, domain, confidence, due_days, verification, falsification, sources) ==
    LET pred_id == GenerateId(preds, dt)
        created == Strftime(dt)
        due == Strftime(PlusDays(dt, due_days))
        new_pred == [id |-> pred_id,
                     prediction |-> prediction,
                     domain |-> domain,
                     confidence |-> confidence,
                     created_date |-> created,
                     due_date |-> due,
                     verification |-> verification,
                     falsification |-> falsification,
                     sources |-> IF sources = <<>> THEN <<>> ELSE sources,
                     outcome |-> Pending,
                     evaluated_date |-> PyNone,
                     outcome_notes |-> PyNone]
        appended == Append(preds, new_pred)
    IN  [predictions |-> appended,
         file |-> SavePredictions(appended),
         saved |-> TRUE,
         ret |-> pred_id]

\* the index of the first record whose id is pred_id, 0 when there is none
RECURSIVE FindId(_, _, _)
FindId(preds, pred_id, i) ==
    IF i > Len(preds) THEN 0
    ELSE IF preds[i].id = pred_id THEN i
    ELSE FindId(preds, pred_id, i + 1)

\* evaluate_prediction, had it saved on the not-found path too
EvaluateSavingAlways(preds, f, dt, pred_id, outcome, notes) ==
    LET i == FindId(preds, pred_id, 1)
        evaluated == [preds EXCEPT ![i].outcome = outcome,
                                   ![i].evaluated_date = Strftime(dt),
                                   ![i].outcome_notes = notes]
    IN  IF i # 0
        THEN [predictions |-> evaluated, file |-> SavePredictions(evaluated),
              saved |-> TRUE, ret |-> TRUE]
        ELSE [predictions |-> preds, file |-> SavePredictions(preds),
              saved |-> TRUE, ret |-> FALSE]

\* evaluate_prediction, had it not stored the notes
EvaluateDroppingNotes(preds, f, dt, pred_id, outcome, notes) ==
    LET i == FindId(preds, pred_id, 1)
        evaluated == [preds EXCEPT ![i].outcome = outcome,
                                   ![i].evaluated_date = Strftime(dt)]
    IN  IF i # 0
        THEN [predictions |-> evaluated, file |-> SavePredictions(evaluated),
              saved |-> TRUE, ret |-> TRUE]
        ELSE [predictions |-> preds, file |-> f, saved |-> FALSE, ret |-> FALSE]

\* evaluate_prediction: the list and the file after the call, and the flag returned
EvaluatePrediction(preds, f, dt, pred_id, outcome, notes) ==
    LET i == FindId(preds, pred_id, 1)
        evaluated == [preds EXCEPT ![i].outcome = outcome,
                                   ![i].evaluated_date = Strftime(dt),
                                   ![i].outcome_notes = notes]
    IN  IF i # 0
        THEN [predictions |-> evaluated,
              file |-> SavePredictions(evaluated),
              saved |-> TRUE,
              ret |-> TRUE]
        ELSE [predictions |-> preds, file |-> f, saved |-> FALSE, ret |-> FALSE]

\* pending.sort(key=lambda x: x['due_date']): x goes after every record already
\* placed whose due date is not later than its own (the sort is stable)
RECURSIVE InsertByDue(_, _)
InsertByDue(sorted, x) ==
    IF sorted = <<>> THEN <<x>>
    ELSE IF StrLess(x.due_date, Head(sorted).due_date) THEN <<x>> \o sorted
    ELSE <<Head(sorted)>> \o InsertByDue(Tail(sorted), x)

RECURSIVE SortByDue(_)
SortByDue(s) ==
    IF s = <<>> THEN <<>>
    ELSE InsertByDue(SortByDue(SubSeq(s, 1, Len(s) - 1)), s[Len(s)])

StatusNone == <<>>
StatusOverdue == <<" ", "[", "O", "V", "E", "R", "D", "U", "E", "]">>
StatusDueToday == <<" ", "[", "D", "U", "E", " ", "T", "O", "D", "A", "Y", "]">>
StatusDueIn(days_left) ==
    <<" ", "[", "D", "U", "E", " ", "I", "N", " ">> \o Str(days_left) \o <<"d", "]">>

\* the status list_pending prints after the id of pending record p
PendingStatus(p, dt) ==
    LET due == Strptime(p.due_date)
        days_left == DeltaDays(due, dt)
    IN  IF days_left < 0 THEN StatusOverdue
        ELSE IF days_left = 0 THEN StatusDueToday
        ELSE IF days_left <= 2 THEN StatusDueIn(days_left)
        ELSE StatusNone

\* list_pending: what it prints, one entry per pending record, in the order printed
ListPending(preds, dt) ==
    LET IsPending(p) == p.outcome = Pending
        pending == SortByDue(SelectSeq(preds, IsPending))
    IN  [i \in 1..Len(pending) |->
            [id |-> pending[i].id,
             status |-> PendingStatus(pending[i], dt),
             due_date |-> pending[i].due_date]]

\* float arithmetic, modelled exactly: a fraction in lowest terms
RECURSIVE Gcd(_, _)
Gcd(a, b) == IF b = 0 THEN a ELSE Gcd(b, a % b)

Abs(n) == IF n < 0 THEN 0 - n ELSE n

Frac(n, d) ==
    LET g == Gcd(Abs(n), Abs(d))
        s == IF d < 0 THEN 0 - 1 ELSE 1
    IN  <<(s * n) \div g, (s * d) \div g>>

FracAdd(x, y) == Frac(x[1] * y[2] + y[1] * x[2], x[2] * y[2])
FracSub(x, y) == Frac(x[1] * y[2] - y[1] * x[2], x[2] * y[2])
FracMul(x, y) == Frac(x[1] * y[1], x[2] * y[2])
FracDiv(x, y) == Frac(x[1] * y[2], x[2] * y[1])
FracInt(n) == <<n, 1>>

\* the loop of show_stats, had it taken incorrect for the outcome that counts as 1
RECURSIVE BrierLoopInverted(_, _)
BrierLoopInverted(evaluated, brier) ==
    IF evaluated = <<>> THEN brier
    ELSE LET p == Head(evaluated)
             outcome_val == IF p.outcome = Incorrect THEN 1 ELSE 0
             conf == FracDiv(FracInt(p.confidence), FracInt(100))
             err == FracSub(conf, FracInt(outcome_val))
         IN  BrierLoopInverted(Tail(evaluated), FracAdd(brier, FracMul(err, err)))

\* the loop of show_stats that adds the squared error of each evaluated record to brier
RECURSIVE BrierLoop(_, _)
BrierLoop(evaluated, brier) ==
    IF evaluated = <<>> THEN brier
    ELSE LET p == Head(evaluated)
             outcome_val == IF p.outcome = Correct THEN 1 ELSE 0
             conf == FracDiv(FracInt(p.confidence), FracInt(100))
             err == FracSub(conf, FracInt(outcome_val))
         IN  BrierLoop(Tail(evaluated), FracAdd(brier, FracMul(err, err)))

\* show_stats: the numbers it prints
ShowStats(preds) ==
    LET IsEvaluated(p) == p.outcome # Pending
        IsCorrect(p) == p.outcome = Correct
        IsIncorrect(p) == p.outcome = Incorrect
        IsPending(p) == p.outcome = Pending
        evaluated == SelectSeq(preds, IsEvaluated)
        correct == SelectSeq(preds, IsCorrect)
        incorrect == SelectSeq(preds, IsIncorrect)
        pending == SelectSeq(preds, IsPending)
        accuracy == IF evaluated # <<>>
                    THEN FracMul(FracDiv(FracInt(Len(correct)), FracInt(Len(evaluated))),
                                 FracInt(100))
                    ELSE FracInt(0)
        brier == IF evaluated # <<>>
                 THEN FracDiv(BrierLoop(evaluated, FracInt(0)), FracInt(Len(evaluated)))
                 ELSE FracInt(0)
    IN  [total |-> Len(preds),
         evaluated |-> Len(evaluated),
         correct |-> Len(correct),
         incorrect |-> Len(incorrect),
         pending |-> Len(pending),
         accuracy |-> accuracy,
         brier |-> brier]

-----------------------------------------------------------------------------
(* The interactive flows and main.  Each returns the list and the file     *)
(* after the call and the record of the call.                              *)

Call(op, args, preds, f, saved, ret, out) ==
    [predictions |-> preds,
     file |-> f,
     last |-> [op |-> op, args |-> args, saved |-> saved, ret |-> ret, out |-> out]]

\* interactive_add, had it added the record before asking for confirmation
InteractiveAddBeforeConfirm(preds, f, dt, typed) ==
    LET prediction == Strip(typed.prediction)
        confidence_raw == Strip(typed.confidence)
        due_days_raw == Strip(typed.due_days)
        sources_raw == Strip(typed.sources)
        pieces == SplitComma(sources_raw, <<>>)
        sources == IF sources_raw # <<>>
                   THEN [i \in 1..Len(pieces) |-> Strip(pieces[i])]
                   ELSE <<>>
        confirm == Lower(Strip(typed.confirm))
        added == AddPrediction(preds, dt, prediction, Strip(typed.domain),
                               ParseInt(confidence_raw), ParseInt(due_days_raw),
                               Strip(typed.verification), Strip(typed.falsification),
                               sources)
    IN  IF prediction = <<>>
        THEN Call("interactive_add", <<>>, preds, f, FALSE, PyNone, "Cancelled.")
        ELSE IF ~IsIntLiteral(confidence_raw) \/ ~IsIntLiteral(due_days_raw)
        THEN Call("interactive_add", <<>>, preds, f, FALSE, PyNone, "ValueError")
        ELSE IF confirm = <<"y">>
        THEN Call("add_prediction", <<>>, added.predictions, added.file, added.saved,
                  added.ret, "Added prediction")
        ELSE Call("interactive_add", <<>>, added.predictions, added.file, FALSE, PyNone,
                  "Cancelled.")

\* interactive_add, given what the user types at each prompt
InteractiveAdd(preds, f, dt, typed) ==
    LET prediction == Strip(typed.prediction)
        domain == Strip(typed.domain)
        confidence_raw == Strip(typed.confidence)
        due_days_raw == Strip(typed.due_days)
        verification == Strip(typed.verification)
        falsification == Strip(typed.falsification)
        sources_raw == Strip(typed.sources)
        pieces == SplitComma(sources_raw, <<>>)
        sources == IF sources_raw # <<>>
                   THEN [i \in 1..Len(pieces) |-> Strip(pieces[i])]
                   ELSE <<>>
        confirm == Lower(Strip(typed.confirm))
        added == AddPrediction(preds, dt, prediction, domain, ParseInt(confidence_raw),
                               ParseInt(due_days_raw), verification, falsification,
                               sources)
    IN  IF prediction = <<>>
        THEN Call("interactive_add", <<>>, preds, f, FALSE, PyNone, "Cancelled.")
        ELSE IF ~IsIntLiteral(confidence_raw) \/ ~IsIntLiteral(due_days_raw)
        THEN Call("interactive_add", <<>>, preds, f, FALSE, PyNone, "ValueError")
        ELSE IF confirm = <<"y">>
        THEN Call("add_prediction", <<>>, added.predictions, added.file, added.saved,
                  added.ret, "Added prediction")
        ELSE Call("interactive_add", <<>>, preds, f, FALSE, PyNone, "Cancelled.")

\* interactive_evaluate, given what the user types at each prompt
InteractiveEvaluate(preds, f, dt, pred_id, typed) ==
    LET found == FindId(preds, pred_id, 1)
        outcome == Lower(Strip(typed.outcome))
        notes == Strip(typed.notes)
        done == EvaluatePrediction(preds, f, dt, pred_id, outcome, notes)
        args == [pred_id |-> pred_id, outcome |-> outcome, notes |-> notes]
    IN  IF found = 0
        THEN Call("interactive_evaluate", <<>>, preds, f, FALSE, PyNone, "not found.")
        ELSE IF outcome \notin {Correct, Incorrect}
        THEN Call("interactive_evaluate", <<>>, preds, f, FALSE, PyNone, "Invalid outcome.")
        ELSE Call("evaluate_prediction", args, done.predictions, done.file, done.saved,
                  done.ret, "Evaluated")

\* main, given the parsed command line and what the user types
Main(f, dt, args, typed) ==
    LET sync == LoadPredictions(f)
    IN  IF args.add THEN InteractiveAdd(sync, f, dt, typed)
        ELSE IF args.evaluate # PyNone /\ args.evaluate # <<>>
        THEN InteractiveEvaluate(sync, f, dt, args.evaluate, typed)
        ELSE IF args.pending
        THEN Call("list_pending", <<>>, sync, f, FALSE, PyNone, ListPending(sync, dt))
        ELSE IF args.stats
        THEN Call("show_stats", <<>>, sync, f, FALSE, PyNone, ShowStats(sync))
        ELSE Call("show_stats; list_pending", <<>>, sync, f, FALSE, PyNone,
                  <<ShowStats(sync), ListPending(sync, dt)>>)

NoArgs == [add |-> FALSE, evaluate |-> PyNone, pending |-> FALSE, stats |-> FALSE]

-----------------------------------------------------------------------------
(* What the environment supplies: the clock, the command lines, the typed  *)
(* answers and the arguments of direct calls.                              *)

\* the first day of the model: 2025-12-31, so that the clock crosses a year
StartOrd == Ymd2Ord(2025, 12, 31)

\* the last day of the model: 2026-01-01
EndOrd == Ymd2Ord(2026, 1, 1)

\* the times of day at which calls are made: midnight exactly, and noon
Hours == {0, 12}

\* answers to the prompts of interactive_add that lead to a record
TypedAdd ==
    [prediction |-> <<"w", "a", "r">>,
     domain |-> <<"S", "e", "c">>,
     confidence |-> <<"8", "0">>,
     due_days |-> <<"3">>,
     verification |-> <<"v">>,
     falsification |-> <<"f">>,
     sources |-> <<>>,
     confirm |-> <<"y">>]

TypedAddSets ==
    { TypedAdd,
      [TypedAdd EXCEPT !.confidence = <<" ", "6", "0">>, !.due_days = <<"0">>,
                       !.sources = <<"a", ",", " ", "b">>, !.confirm = <<"Y", " ">>],
      [TypedAdd EXCEPT !.prediction = <<" ">>],
      [TypedAdd EXCEPT !.confidence = <<"x">>],
      [TypedAdd EXCEPT !.due_days = <<>>],
      [TypedAdd EXCEPT !.confirm = <<"n">>],
      [TypedAdd EXCEPT !.confirm = <<>>] }

\* answers to the prompts of interactive_evaluate
TypedEvaluateSets ==
    { [outcome |-> <<" ", "C">> \o Tail(Correct), notes |-> <<"o", "k", " ">>],
      [outcome |-> Incorrect, notes |-> <<>>],
      [outcome |-> <<"y">>, notes |-> <<"o", "k">>] }

\* an id no record of the model ever carries
MissingId == PredPrefix(2025) \o <<"-", "9", "9", "9">>

\* the ids of the records of a list
IdsOf(preds) == {preds[i].id : i \in 1..Len(preds)}

-----------------------------------------------------------------------------
(* The state machine.                                                      *)

\* the state once PredictionSync() has been constructed with no file on disk
Init ==
    /\ file = NoFile
    /\ predictions = LoadPredictions(NoFile)
    /\ now = [ord |-> StartOrd, hour |-> 0]
    /\ last = Call("__init__", <<>>, <<>>, NoFile, FALSE, PyNone, "").last

\* the state after a call that returned r
Return(r) ==
    /\ predictions' = r.predictions
    /\ file' = r.file
    /\ last' = r.last
    /\ UNCHANGED now

\* time passes: later the same day, or into the next day
Tick ==
    /\ \E h \in Hours :
          \/ h > now.hour /\ now' = [now EXCEPT !.hour = h]
          \/ /\ now.ord < EndOrd
             /\ now' = [ord |-> now.ord + 1, hour |-> h]
    /\ UNCHANGED <<file, predictions, last>>

\* python sync_predictions.py --add
MainAdd ==
    \E typed \in TypedAddSets :
       LET r == Main(file, now, [NoArgs EXCEPT !.add = TRUE], typed)
       IN  Len(r.predictions) <= MaxPreds /\ Return(r)

\* python sync_predictions.py --evaluate ID
MainEvaluate ==
    \E pred_id \in IdsOf(LoadPredictions(file)) \cup {MissingId} :
       \E typed \in TypedEvaluateSets :
          Return(Main(file, now, [NoArgs EXCEPT !.evaluate = pred_id], typed))

\* python sync_predictions.py --pending
MainPending == Return(Main(file, now, [NoArgs EXCEPT !.pending = TRUE], <<>>))

\* python sync_predictions.py --stats
MainStats == Return(Main(file, now, [NoArgs EXCEPT !.stats = TRUE], <<>>))

\* python sync_predictions.py
MainDefault == Return(Main(file, now, NoArgs, <<>>))

\* arguments of direct calls of add_prediction: nothing validates them
AddArgs ==
    LET base == [prediction |-> <<"w", "a", "r">>, domain |-> <<"S", "e", "c">>,
                 confidence |-> 80, due_days |-> 3, verification |-> <<"v">>,
                 falsification |-> <<"f">>, sources |-> <<>>]
    IN  { base,
          [base EXCEPT !.confidence = 0 - 5, !.due_days = 0 - 1,
                       !.sources = << <<"a">> >>] }

\* sync.add_prediction(...) on the live object
CallAddPrediction ==
    /\ Len(predictions) < MaxPreds
    /\ \E args \in AddArgs :
          LET r == AddPrediction(predictions, now, args.prediction, args.domain,
                                 args.confidence, args.due_days, args.verification,
                                 args.falsification, args.sources)
          IN  Return(Call("add_prediction", <<>>, r.predictions, r.file, r.saved, r.ret,
                          "Added prediction"))

\* outcome arguments of direct calls of evaluate_prediction: any string is accepted
OutcomeArgs == {Correct, Incorrect, <<"y">>}

\* sync.evaluate_prediction(pred_id, outcome) on the live object, notes left to default
CallEvaluatePrediction ==
    \E pred_id \in IdsOf(predictions) \cup {MissingId} :
       \E outcome \in OutcomeArgs : \E notes \in {PyNone} :
          LET args == [pred_id |-> pred_id, outcome |-> outcome, notes |-> notes]
              r == EvaluatePrediction(predictions, file, now, pred_id, outcome, notes)
          IN  Return(Call("evaluate_prediction", args, r.predictions, r.file, r.saved,
                          r.ret, IF r.ret THEN "Evaluated" ELSE "not found"))

\* somebody edits predictions.json by hand and deletes one record from it
ExternalDelete ==
    /\ file.exists
    /\ \E i \in 1..Len(file.doc.items) :
          file' = [file EXCEPT !.doc.items =
                      SubSeq(@, 1, i - 1) \o SubSeq(@, i + 1, Len(@))]
    /\ last' = [last EXCEPT !.op = "external edit"]
    /\ UNCHANGED <<predictions, now>>

\* the program: every run of main, and the clock
Next ==
    \/ Tick
    \/ MainAdd
    \/ MainEvaluate
    \/ MainPending
    \/ MainStats
    \/ MainDefault

\* a single writer, and nothing else touches the file
Spec == Init /\ [][Next]_vars

\* the store used as a library: direct calls on one live object
NextLibrary ==
    \/ Tick
    \/ CallAddPrediction
    \/ CallEvaluatePrediction

SpecLibrary == Init /\ [][NextLibrary]_vars

NextExternal == Next \/ ExternalDelete

\* as Spec, and records are deleted from the file out-of-band
SpecExternal == Init /\ [][NextExternal]_vars

-----------------------------------------------------------------------------
(* Properties.                                                             *)

\* the records created in the same year as record i and before it
EarlierSameYear(preds, i) ==
    {j \in 1..(i - 1) : SubSeq(preds[j].created_date, 1, 4) = SubSeq(preds[i].created_date, 1, 4)}

\* id is PRED-<year>-<seq>: seq written in decimal with at least three digits
IsIdOf(id, year, seq) ==
    LET digits == SubSeq(id, 11, Len(id))
    IN  /\ SubSeq(id, 1, 5) = <<"P", "R", "E", "D", "-">>
        /\ SubSeq(id, 6, 9) = year
        /\ id[10] = "-"
        /\ Len(digits) = (IF seq > 999 THEN 4 ELSE 3)
        /\ \A k \in 1..Len(digits) : IsDigit(digits[k])
        /\ DigitsVal(digits) = seq

\* C1: starting from the empty store, the k-th record added in a year carries the id
\* PRED-<year>-<k padded to three digits>, whatever evaluations happen in between,
\* and add_prediction returns the id of the record it appended.
C1_IdsCountUpWithinYear ==
    /\ \A i \in 1..Len(predictions) :
          IsIdOf(predictions[i].id, SubSeq(predictions[i].created_date, 1, 4),
                 Cardinality(EarlierSameYear(predictions, i)) + 1)
    /\ last.op = "add_prediction" => last.ret = predictions[Len(predictions)].id

\* two adds in the same year have returned ...-001 and ...-002
C1_Witness ==
    /\ last.op = "add_prediction"
    /\ Len(predictions) = 2
    /\ EarlierSameYear(predictions, 2) = {1}
    /\ predictions[1].id = PredPrefix(2025) \o <<"-", "0", "0", "1">>
    /\ last.ret = PredPrefix(2025) \o <<"-", "0", "0", "2">>

\* C2: no two records of the store carry the same id, also after records were
\* deleted from the file out-of-band.
C2_IdsUnique ==
    \A i, j \in 1..Len(predictions) :
       i # j => predictions[i].id # predictions[j].id

\* C3: once a record's outcome is correct or incorrect, no step changes its
\* outcome, evaluated_date or outcome_notes.
C3_OutcomeSetOnce ==
    [][\A i \in 1..Len(predictions) :
          predictions[i].outcome \in {Correct, Incorrect} =>
             /\ i <= Len(predictions')
             /\ predictions'[i].outcome = predictions[i].outcome
             /\ predictions'[i].evaluated_date = predictions[i].evaluated_date
             /\ predictions'[i].outcome_notes = predictions[i].outcome_notes]_vars

\* C4: evaluate_prediction with an id no record carries returns False, does not
\* save, and leaves the list and the file as they were, whatever the outcome argument.
C4_EvaluateMissingIdChangesNothing ==
    [][(/\ last'.op = "evaluate_prediction"
        /\ last'.args.pred_id \notin IdsOf(predictions))
       => /\ last'.ret = FALSE
          /\ ~last'.saved
          /\ predictions' = predictions
          /\ file' = file]_vars

\* evaluate_prediction has returned False on a store that holds records
C4_Witness ==
    /\ last.op = "evaluate_prediction"
    /\ last.ret = FALSE
    /\ last.args.outcome = <<"y">>
    /\ Len(predictions) = 2
    /\ file.exists

\* the fields of a record that evaluate_prediction does not write
SameOtherFields(p, q) ==
    /\ p.id = q.id
    /\ p.prediction = q.prediction
    /\ p.domain = q.domain
    /\ p.confidence = q.confidence
    /\ p.created_date = q.created_date
    /\ p.due_date = q.due_date
    /\ p.verification = q.verification
    /\ p.falsification = q.falsification
    /\ p.sources = q.sources

\* C5: evaluate_prediction on the id of a pending record returns True, sets that
\* record's outcome, evaluated_date (today) and outcome_notes from its arguments,
\* and changes nothing else: not that record's other fields, not another record,
\* not the number or order of the records.
C5_EvaluatePendingWritesThreeFields ==
    [][\A i \in 1..Len(predictions) :
          (/\ last'.op = "evaluate_prediction"
           /\ predictions[i].id = last'.args.pred_id
           /\ predictions[i].outcome = Pending)
          => /\ last'.ret = TRUE
             /\ Len(predictions') = Len(predictions)
             /\ \A k \in 1..Len(predictions) : k # i => predictions'[k] = predictions[k]
             /\ predictions'[i].outcome = last'.args.outcome
             /\ predictions'[i].outcome_notes = last'.args.notes
             /\ Len(predictions'[i].evaluated_date) = 10
             /\ Strptime(predictions'[i].evaluated_date).ord = now.ord
             /\ SameOtherFields(predictions'[i], predictions[i])]_vars

\* the second of two records has been evaluated correct the day after it was created
C5_Witness ==
    /\ last.op = "evaluate_prediction"
    /\ last.ret = TRUE
    /\ Len(predictions) = 2
    /\ predictions[1].outcome = Pending
    /\ predictions[2].outcome = Correct
    /\ predictions[2].id = last.args.pred_id
    /\ predictions[2].evaluated_date # predictions[2].created_date

\* C6: after add_prediction and after a successful evaluate_prediction the file
\* holds the whole list: loading it gives the list that is in memory.
C6_SavedFileIsTheList ==
    (\/ last.op = "add_prediction"
     \/ last.op = "evaluate_prediction" /\ last.ret = TRUE) =>
       /\ last.saved
       /\ file.exists
       /\ Len(file.doc.items) = Len(predictions)
       /\ LoadPredictions(file) = predictions

\* a second record has been added to a store whose first record is evaluated
C6_Witness ==
    /\ last.op = "add_prediction"
    /\ Len(predictions) = 2
    /\ predictions[1].outcome = Incorrect
    /\ predictions[2].sources # <<>>
    /\ LoadPredictions(file)[2].id = last.ret

\* the urgency the calendar gives a due date: overdue before today, due today on
\* the day, due soon one or two days ahead, nothing from three days ahead
UrgencyByCalendar(due_date, today) ==
    LET days_left == Strptime(due_date).ord - today.ord
    IN  IF days_left < 0 THEN StatusOverdue
        ELSE IF days_left = 0 THEN StatusDueToday
        ELSE IF days_left <= 2 THEN StatusDueIn(days_left)
        ELSE StatusNone

\* C7: list_pending tags every pending record by the whole calendar days from the
\* current date to its due date, at any time of day.
C7_UrgencyCountsCalendarDays ==
    [][(last'.op = "list_pending" /\ now' = now) =>
          \A k \in 1..Len(last'.out) :
             last'.out[k].status = UrgencyByCalendar(last'.out[k].due_date, now)]_vars

\* the sum of f over the set S of indices, f a function on S
RECURSIVE SumOver(_, _)
SumOver(S, f) ==
    IF S = {} THEN 0
    ELSE LET x == CHOOSE y \in S : TRUE IN f[x] + SumOver(S \ {x}, f)

\* C8: show_stats counts the records, the evaluated, correct, incorrect and pending
\* ones; accuracy is 100 * correct / evaluated and the Brier score is the sum of
\* (confidence - 100 * indicator)^2 over 10000 * evaluated, both 0 when nothing is
\* evaluated; correct + incorrect = evaluated and evaluated + pending = total.
C8_StatsAreTheDefinedAggregates ==
    last.op = "show_stats" =>
       LET s == last.out
           all == 1..Len(predictions)
           evaluated == {i \in all : predictions[i].outcome # Pending}
           correct == {i \in all : predictions[i].outcome = Correct}
           incorrect == {i \in all : predictions[i].outcome = Incorrect}
           sqerr == [i \in evaluated |->
                       LET e == predictions[i].confidence
                                  - (IF i \in correct THEN 100 ELSE 0)
                       IN  e * e]
       IN  /\ s.total = Cardinality(all)
           /\ s.evaluated = Cardinality(evaluated)
           /\ s.correct = Cardinality(correct)
           /\ s.incorrect = Cardinality(incorrect)
           /\ s.pending = Cardinality(all \ evaluated)
           /\ s.correct + s.incorrect = s.evaluated
           /\ s.evaluated + s.pending = s.total
           /\ s.accuracy[2] > 0 /\ s.brier[2] > 0
           /\ IF evaluated = {}
              THEN s.accuracy[1] = 0 /\ s.brier[1] = 0
              ELSE /\ s.accuracy[1] * Cardinality(evaluated)
                         = 100 * Cardinality(correct) * s.accuracy[2]
                   /\ s.brier[1] * 10000 * Cardinality(evaluated)
                         = SumOver(evaluated, sqerr) * s.brier[2]

\* the statistics of {80 -> correct, 60 -> incorrect}: accuracy 50, Brier score 0.2
C8_Witness ==
    /\ last.op = "show_stats"
    /\ Len(predictions) = 2
    /\ \E i, j \in 1..2 :
          /\ predictions[i].confidence = 80 /\ predictions[i].outcome = Correct
          /\ predictions[j].confidence = 60 /\ predictions[j].outcome = Incorrect
    /\ last.out.accuracy = <<50, 1>>
    /\ last.out.brier = <<1, 5>>

\* every outcome is pending, correct or incorrect, and a pending record has neither
\* an evaluated_date nor outcome_notes
WellFormedOutcomes(preds) ==
    \A i \in 1..Len(preds) :
       /\ preds[i].outcome \in {Pending, Correct, Incorrect}
       /\ preds[i].outcome = Pending =>
             preds[i].evaluated_date = PyNone /\ preds[i].outcome_notes = PyNone

\* a step of add_prediction appends one pending record and keeps the others
AddAppendsOnePending ==
    (last'.op = "add_prediction" /\ predictions' # predictions) =>
       /\ Len(predictions') = Len(predictions) + 1
       /\ SubSeq(predictions', 1, Len(predictions)) = predictions
       /\ predictions'[Len(predictions')].outcome = Pending
       /\ predictions'[Len(predictions')].evaluated_date = PyNone
       /\ predictions'[Len(predictions')].outcome_notes = PyNone

\* a record's evaluated_date is written only as its outcome leaves pending
EvaluatedDateSetOnLeavingPending ==
    \A i \in 1..Len(predictions) :
       (i <= Len(predictions')
        /\ predictions'[i].evaluated_date # predictions[i].evaluated_date) =>
          predictions[i].outcome = Pending /\ predictions'[i].outcome # Pending

\* C9: records are well formed in every state (a pending record has no
\* evaluated_date and no outcome_notes, outcomes are pending, correct or incorrect),
\* add_prediction appends exactly one pending record with both absent and keeps the
\* others, and evaluated_date is set only by a transition out of pending.
C9_EvaluatedFieldsOnlyOffPending ==
    [][/\ WellFormedOutcomes(predictions')
       /\ AddAppendsOnePending
       /\ EvaluatedDateSetOnLeavingPending]_vars

\* the part of C9 that is a property of the states and of add_prediction alone
C9_WellFormedAndAddAppends ==
    [][WellFormedOutcomes(predictions') /\ AddAppendsOnePending]_vars

=============================================================================
